---- MODULE Spec2Model ----
(***************************************************************************)
(* The per-address-family responder event loop of libmdns (src/fsm.rs):    *)
(* the FSM future, its command channel, its UDP socket and its outbound    *)
(* queue.  One poll of the future is split at its loop heads, so that the   *)
(* producers of commands and the network act between the iterations as     *)
(* they do on the real socket and channel.  DispatchSpec runs the question  *)
(* dispatcher on its own, over every query type and name.                  *)
(***************************************************************************)
EXTENDS Integers, Sequences, FiniteSets, TLC

\* ------------------------------------------------------------------ bounds
MaxQuestions == 2      \* questions carried by one inbound query
MaxCommands == 1       \* commands buffered in the channel at one time
MaxWaiting == 1        \* datagrams buffered in the socket at one time
MaxQueue == 3          \* the producers pause while the queue could pass this
MaxDispatches == 2     \* calls of the dispatcher on one response-in-progress

\* --------------------------------------------------------------- constants
BufLen == 4096
MDNS_PORT == 5353
DEFAULT_TTL == 60

Hostname == "host.local"
HttpType == "_http._tcp.local"
IppType == "_ipp._tcp.local"

\* ServiceData: the registered instances, in registration order, and one
\* instance that is announced without being registered.
svcA == [name |-> "a._http._tcp.local", typ |-> HttpType, port |-> 80, txt |-> "a=1"]
svcB == [name |-> "b._http._tcp.local", typ |-> HttpType, port |-> 81, txt |-> "b=1"]
svcC == [name |-> "c._ipp._tcp.local", typ |-> IppType, port |-> 631, txt |-> "c=1"]

Registry == [hostname |-> Hostname, list |-> <<svcA, svcB>>]

\* Services::get_hostname, find_by_type, find_by_name
get_hostname(svcs) == svcs.hostname

find_by_type(svcs, ty) == SelectSeq(svcs.list, LAMBDA s : s.typ = ty)

find_by_name(svcs, nm) == SelectSeq(svcs.list, LAMBDA s : s.name = nm)

\* ------------------------------------------------------- resource records
RR(name, rtype, ttl, target, port, text) ==
    [name |-> name, rtype |-> rtype, ttl |-> ttl,
     target |-> target, port |-> port, text |-> text]

add_answer(builder, rr) == [builder EXCEPT !.recs = Append(@, rr)]

add_ptr_rr(svc, builder, ttl) ==
    add_answer(builder, RR(svc.typ, "PTR", ttl, svc.name, 0, ""))

add_srv_rr(svc, hostname, builder, ttl) ==
    add_answer(builder, RR(svc.name, "SRV", ttl, hostname, svc.port, ""))

add_txt_rr(svc, builder, ttl) ==
    add_answer(builder, RR(svc.name, "TXT", ttl, "", 0, svc.txt))

\* get_if_addrs: an error, or the interfaces of the machine.
IfErr == [ok |-> FALSE, list |-> <<>>]
IfList == [ok |-> TRUE,
           list |-> <<[ip |-> "127.0.0.1", loopback |-> TRUE, v6 |-> FALSE],
                      [ip |-> "192.168.1.2", loopback |-> FALSE, v6 |-> FALSE],
                      [ip |-> "fe80::2", loopback |-> FALSE, v6 |-> TRUE]>>]
IfChoices == {IfErr, IfList}

RECURSIVE add_ifaces(_, _, _, _, _)
add_ifaces(list, af6, hostname, builder, ttl) ==
    IF list = <<>> THEN builder
    ELSE LET iface == Head(list)
             next == IF iface.loopback THEN builder
                     ELSE IF ~iface.v6 /\ ~af6
                          THEN add_answer(builder, RR(hostname, "A", ttl, iface.ip, 0, ""))
                     ELSE IF iface.v6 /\ af6
                          THEN add_answer(builder, RR(hostname, "AAAA", ttl, iface.ip, 0, ""))
                     ELSE builder
         IN add_ifaces(Tail(list), af6, hostname, next, ttl)

add_ip_rr(ifs, af6, hostname, builder, ttl) ==
    IF ~ifs.ok THEN builder
    ELSE add_ifaces(ifs.list, af6, hostname, builder, ttl)

\* ------------------------------------------------------------- dispatcher
\* The PTR arm of handle_question: one record group per service found.
RECURSIVE add_ptr_groups_addressFirst(_, _, _, _, _)
add_ptr_groups_addressFirst(found, svcs, ifs, af6, builder) ==
    IF found = <<>> THEN builder
    ELSE LET svc == Head(found)
             b1 == add_ip_rr(ifs, af6, get_hostname(svcs), builder, DEFAULT_TTL)
             b2 == add_ptr_rr(svc, b1, DEFAULT_TTL)
             b3 == add_srv_rr(svc, get_hostname(svcs), b2, DEFAULT_TTL)
             b4 == add_txt_rr(svc, b3, DEFAULT_TTL)
         IN add_ptr_groups_addressFirst(Tail(found), svcs, ifs, af6, b4)

RECURSIVE add_ptr_groups(_, _, _, _, _)
add_ptr_groups(found, svcs, ifs, af6, builder) ==
    IF found = <<>> THEN builder
    ELSE LET svc == Head(found)
             b1 == add_ptr_rr(svc, builder, DEFAULT_TTL)
             b2 == add_srv_rr(svc, get_hostname(svcs), b1, DEFAULT_TTL)
             b3 == add_txt_rr(svc, b2, DEFAULT_TTL)
             b4 == add_ip_rr(ifs, af6, get_hostname(svcs), b3, DEFAULT_TTL)
         IN add_ptr_groups(Tail(found), svcs, ifs, af6, b4)

handle_question_dedup(svcs, ifs, af6, question, builder) ==
    LET raw ==
            IF question.qtype \in {"A", "AAAA", "All"} /\ question.qname = get_hostname(svcs)
            THEN add_ip_rr(ifs, af6, get_hostname(svcs), builder, DEFAULT_TTL)
            ELSE IF question.qtype = "PTR"
            THEN add_ptr_groups(find_by_type(svcs, question.qname), svcs, ifs, af6, builder)
            ELSE IF question.qtype = "SRV"
            THEN LET found == find_by_name(svcs, question.qname)
                 IN IF found # <<>>
                    THEN add_ip_rr(ifs, af6, get_hostname(svcs),
                                   add_srv_rr(found[1], get_hostname(svcs), builder,
                                              DEFAULT_TTL),
                                   DEFAULT_TTL)
                    ELSE builder
            ELSE IF question.qtype = "TXT"
            THEN LET found == find_by_name(svcs, question.qname)
                 IN IF found # <<>> THEN add_txt_rr(found[1], builder, DEFAULT_TTL)
                    ELSE builder
            ELSE builder
        new == SubSeq(raw.recs, Len(builder.recs) + 1, Len(raw.recs))
        known(rr) == \E k \in 1..Len(builder.recs) : builder.recs[k] = rr
    IN [builder EXCEPT !.recs = @ \o SelectSeq(new, LAMBDA rr : ~known(rr))]

handle_question_anyName(svcs, ifs, af6, question, builder) ==
    IF question.qtype \in {"A", "AAAA", "All"}
    THEN add_ip_rr(ifs, af6, get_hostname(svcs), builder, DEFAULT_TTL)
    ELSE IF question.qtype = "PTR"
    THEN add_ptr_groups(find_by_type(svcs, question.qname), svcs, ifs, af6, builder)
    ELSE IF question.qtype = "SRV"
    THEN LET found == find_by_name(svcs, question.qname)
         IN IF found # <<>>
            THEN add_ip_rr(ifs, af6, get_hostname(svcs),
                           add_srv_rr(found[1], get_hostname(svcs), builder, DEFAULT_TTL),
                           DEFAULT_TTL)
            ELSE builder
    ELSE IF question.qtype = "TXT"
    THEN LET found == find_by_name(svcs, question.qname)
         IN IF found # <<>> THEN add_txt_rr(found[1], builder, DEFAULT_TTL) ELSE builder
    ELSE builder

handle_question(svcs, ifs, af6, question, builder) ==
    IF question.qtype \in {"A", "AAAA", "All"} /\ question.qname = get_hostname(svcs)
    THEN add_ip_rr(ifs, af6, get_hostname(svcs), builder, DEFAULT_TTL)
    ELSE IF question.qtype = "PTR"
    THEN add_ptr_groups(find_by_type(svcs, question.qname), svcs, ifs, af6, builder)
    ELSE IF question.qtype = "SRV"
    THEN LET found == find_by_name(svcs, question.qname)
         IN IF found # <<>>
            THEN add_ip_rr(ifs, af6, get_hostname(svcs),
                           add_srv_rr(found[1], get_hostname(svcs), builder, DEFAULT_TTL),
                           DEFAULT_TTL)
            ELSE builder
    ELSE IF question.qtype = "TXT"
    THEN LET found == find_by_name(svcs, question.qname)
         IN IF found # <<>> THEN add_txt_rr(found[1], builder, DEFAULT_TTL) ELSE builder
    ELSE builder

\* ------------------------------------------------------- addresses, packets
mdns_group(af6) == IF af6 THEN "ff02::fb" ELSE "224.0.0.251"

SocketAddr(ip, port) == [ip |-> ip, port |-> port]

Peers == {SocketAddr("peer1", MDNS_PORT), SocketAddr("peer2", 49152)}

\* Builder::new_response(id, recursion, authoritative).move_to::<Answers>()
new_response(id, recursion, authoritative) ==
    [id |-> id, response |-> TRUE, recursion |-> recursion,
     authoritative |-> authoritative, recs |-> <<>>]

is_empty(builder) == builder.recs = <<>>

\* Builder::build with max_size None: the message is never cut, and the
\* truncated bit stays clear.
build(builder) ==
    [id |-> builder.id, response |-> builder.response,
     authoritative |-> builder.authoritative, truncated |-> FALSE,
     answers |-> builder.recs]

\* ------------------------------------------------------- inbound datagrams
Question(qname, qclass, qtype, qu) ==
    [qname |-> qname, qclass |-> qclass, qtype |-> qtype, qu |-> qu]

\* The questions the network sends: hits and misses of every rule, both
\* reply paths, and a class the responder does not serve.
Questions ==
    { Question(HttpType, "IN", "PTR", FALSE),
      Question(Hostname, "Any", "A", TRUE),
      Question(svcA.name, "CH", "SRV", FALSE),
      Question(svcC.name, "IN", "TXT", TRUE) }

RECURSIVE SeqsUpTo(_, _)
SeqsUpTo(S, n) ==
    IF n = 0 THEN {<<>>}
    ELSE LET shorter == SeqsUpTo(S, n - 1)
         IN shorter \cup {Append(s, x) : s \in {t \in shorter : Len(t) = n - 1}, x \in S}

QueryIds == {7}

Datagram(bytes, wellformed, query, truncated, questions) ==
    [bytes |-> bytes, wellformed |-> wellformed,
     header |-> [id |-> CHOOSE id \in QueryIds : TRUE,
                 query |-> query, truncated |-> truncated],
     questions |-> questions]

SomeQuestions == <<Question(HttpType, "IN", "PTR", FALSE)>>

\* What one receive can report: length and content.
Datagrams ==
    { Datagram(64, TRUE, TRUE, FALSE, qs) : qs \in SeqsUpTo(Questions, MaxQuestions) }
    \cup { Datagram(64, FALSE, FALSE, FALSE, <<>>),
           Datagram(64, TRUE, FALSE, FALSE, SomeQuestions),
           Datagram(64, TRUE, TRUE, TRUE, SomeQuestions),
           Datagram(BufLen - 1, TRUE, TRUE, FALSE, SomeQuestions),
           Datagram(BufLen, TRUE, TRUE, FALSE, SomeQuestions) }

\* The length test of recv_packets: bytes >= buf.len()
too_big_strict(bytes) == bytes > BufLen

too_big(bytes) == bytes >= BufLen

\* dns_parser::Packet::parse
parse(buffer) ==
    IF buffer.wellformed
    THEN [ok |-> TRUE, header |-> buffer.header, questions |-> buffer.questions]
    ELSE [ok |-> FALSE, header |-> buffer.header, questions |-> <<>>]

\* The question loop of handle_packet.  uni and multi are the two builders;
\* uniFrom and multiFrom record, for each record of a builder, the index of
\* the question that appended it.
Repeat(x, n) == [k \in 1..n |-> x]

route_question_quToMulticast(svcs, ifs, af6, questions, i, acc) ==
    LET question == questions[i]
    IN IF question.qclass = "IN" \/ question.qclass = "Any"
       THEN LET b == handle_question(svcs, ifs, af6, question, acc.multi)
            IN [acc EXCEPT !.multi = b,
                           !.multiFrom = @ \o Repeat(i, Len(b.recs) - Len(acc.multi.recs))]
       ELSE acc

route_question_anyClass(svcs, ifs, af6, questions, i, acc) ==
    LET question == questions[i]
    IN IF question.qu
       THEN LET b == handle_question(svcs, ifs, af6, question, acc.uni)
            IN [acc EXCEPT !.uni = b,
                           !.uniFrom = @ \o Repeat(i, Len(b.recs) - Len(acc.uni.recs))]
       ELSE LET b == handle_question(svcs, ifs, af6, question, acc.multi)
            IN [acc EXCEPT !.multi = b,
                           !.multiFrom = @ \o Repeat(i, Len(b.recs) - Len(acc.multi.recs))]

route_question(svcs, ifs, af6, questions, i, acc) ==
    LET question == questions[i]
    IN IF question.qclass = "IN" \/ question.qclass = "Any"
       THEN IF question.qu
            THEN LET b == handle_question(svcs, ifs, af6, question, acc.uni)
                 IN [acc EXCEPT !.uni = b,
                                !.uniFrom = @ \o Repeat(i, Len(b.recs) - Len(acc.uni.recs))]
            ELSE LET b == handle_question(svcs, ifs, af6, question, acc.multi)
                 IN [acc EXCEPT !.multi = b,
                                !.multiFrom = @ \o Repeat(i, Len(b.recs) - Len(acc.multi.recs))]
       ELSE acc

RECURSIVE question_loop(_, _, _, _, _, _)
question_loop(svcs, ifs, af6, questions, i, acc) ==
    IF i > Len(questions) THEN acc
    ELSE question_loop(svcs, ifs, af6, questions, i + 1,
                       route_question(svcs, ifs, af6, questions, i, acc))

\* The packets handle_packet pushes for an accepted query, each with the
\* provenance of its records.
finalize_multicastToSender(af6, addr, acc) ==
    (IF ~is_empty(acc.multi)
     THEN <<[pkt |-> [bytes |-> build(acc.multi), addr |-> addr], from |-> acc.multiFrom]>>
     ELSE <<>>)
    \o
    (IF ~is_empty(acc.uni)
     THEN <<[pkt |-> [bytes |-> build(acc.uni), addr |-> addr], from |-> acc.uniFrom]>>
     ELSE <<>>)

finalize(af6, addr, acc) ==
    (IF ~is_empty(acc.multi)
     THEN <<[pkt |-> [bytes |-> build(acc.multi),
                      addr |-> SocketAddr(mdns_group(af6), MDNS_PORT)],
             from |-> acc.multiFrom]>>
     ELSE <<>>)
    \o
    (IF ~is_empty(acc.uni)
     THEN <<[pkt |-> [bytes |-> build(acc.uni), addr |-> addr], from |-> acc.uniFrom]>>
     ELSE <<>>)

\* handle_packet: the entries it appends to the queue, and the diagnostic
\* it logs when it drops the datagram.
handle_packet_pushesEmpty(svcs, ifs, af6, buffer, addr) ==
    LET packet == parse(buffer)
    IN IF ~packet.ok
       THEN [pushed |-> <<>>, log |-> {"couldn't parse packet"}]
       ELSE IF ~packet.header.query
       THEN [pushed |-> <<>>, log |-> {"packet with no query"}]
       ELSE IF packet.header.truncated
       THEN [pushed |-> <<>>, log |-> {"dropping truncated packet"}]
       ELSE LET start ==
                    [uni |-> new_response(packet.header.id, FALSE, TRUE),
                     multi |-> new_response(packet.header.id, FALSE, TRUE),
                     uniFrom |-> <<>>, multiFrom |-> <<>>]
                acc == question_loop(svcs, ifs, af6, packet.questions, 1, start)
            IN [pushed |-> <<[pkt |-> [bytes |-> build(acc.multi),
                                       addr |-> SocketAddr(mdns_group(af6), MDNS_PORT)],
                              from |-> acc.multiFrom],
                             [pkt |-> [bytes |-> build(acc.uni), addr |-> addr],
                              from |-> acc.uniFrom]>>,
                log |-> {}]

handle_packet_answersTruncated(svcs, ifs, af6, buffer, addr) ==
    LET packet == parse(buffer)
    IN IF ~packet.ok
       THEN [pushed |-> <<>>, log |-> {"couldn't parse packet"}]
       ELSE IF ~packet.header.query
       THEN [pushed |-> <<>>, log |-> {"packet with no query"}]
       ELSE LET start ==
                    [uni |-> new_response(packet.header.id, FALSE, TRUE),
                     multi |-> new_response(packet.header.id, FALSE, TRUE),
                     uniFrom |-> <<>>, multiFrom |-> <<>>]
                acc == question_loop(svcs, ifs, af6, packet.questions, 1, start)
            IN [pushed |-> finalize(af6, addr, acc), log |-> {}]

handle_packet(svcs, ifs, af6, buffer, addr) ==
    LET packet == parse(buffer)
    IN IF ~packet.ok
       THEN [pushed |-> <<>>, log |-> {"couldn't parse packet"}]
       ELSE IF ~packet.header.query
       THEN [pushed |-> <<>>, log |-> {"packet with no query"}]
       ELSE IF packet.header.truncated
       THEN [pushed |-> <<>>, log |-> {"dropping truncated packet"}]
       ELSE LET start ==
                    [uni |-> new_response(packet.header.id, FALSE, TRUE),
                     multi |-> new_response(packet.header.id, FALSE, TRUE),
                     uniFrom |-> <<>>, multiFrom |-> <<>>]
                acc == question_loop(svcs, ifs, af6, packet.questions, 1, start)
            IN [pushed |-> finalize(af6, addr, acc), log |-> {}]

Packets(pushed) == [k \in 1..Len(pushed) |-> pushed[k].pkt]

\* send_unsolicited: the entries it appends to the queue.
send_unsolicited_defaultTtl(svcs, ifs, af6, svc, ttl, include_ip) ==
    LET b0 == new_response(0, FALSE, TRUE)
        b1 == add_ptr_rr(svc, b0, DEFAULT_TTL)
        b2 == add_srv_rr(svc, get_hostname(svcs), b1, DEFAULT_TTL)
        b3 == add_txt_rr(svc, b2, DEFAULT_TTL)
        b4 == IF include_ip
              THEN add_ip_rr(ifs, af6, get_hostname(svcs), b3, DEFAULT_TTL)
              ELSE b3
    IN IF ~is_empty(b4)
       THEN <<[bytes |-> build(b4), addr |-> SocketAddr(mdns_group(af6), MDNS_PORT)]>>
       ELSE <<>>

send_unsolicited(svcs, ifs, af6, svc, ttl, include_ip) ==
    LET b0 == new_response(0, FALSE, TRUE)
        b1 == add_ptr_rr(svc, b0, ttl)
        b2 == add_srv_rr(svc, get_hostname(svcs), b1, ttl)
        b3 == add_txt_rr(svc, b2, ttl)
        b4 == IF include_ip THEN add_ip_rr(ifs, af6, get_hostname(svcs), b3, ttl) ELSE b3
    IN IF ~is_empty(b4)
       THEN <<[bytes |-> build(b4), addr |-> SocketAddr(mdns_group(af6), MDNS_PORT)]>>
       ELSE <<>>

\* ------------------------------------------------------------ commands
Shutdown == [kind |-> "Shutdown", svc |-> svcA, ttl |-> 0, include_ip |-> FALSE]

SendUnsolicited(svc, ttl, include_ip) ==
    [kind |-> "SendUnsolicited", svc |-> svc, ttl |-> ttl, include_ip |-> include_ip]

Commands ==
    {Shutdown, SendUnsolicited(svcA, 120, TRUE), SendUnsolicited(svcC, 0, FALSE)}

\* ------------------------------------------------------------ the socket
\* Length of a serialised response: the header and its answers.
len(response) == 12 + Len(response.answers)

\* What poll_send_to can return for a response.
SendOutcomes(response) ==
    { [kind |-> "Ok", v |-> n, err |-> "none"] : n \in {len(response), len(response) - 1} }
    \cup { [kind |-> "Err", v |-> 0, err |-> "WouldBlock"],
           [kind |-> "Err", v |-> 0, err |-> "Other"],
           [kind |-> "Pending", v |-> 0, err |-> "none"] }

\* The arms of the match in the send loop that leave the loop.
breaks(outcome, response) ==
    \/ outcome.kind = "Ok" /\ outcome.v = len(response)
    \/ outcome.kind = "Err" /\ outcome.err = "WouldBlock"
    \/ outcome.kind = "Pending"

\* The arm of the match an outcome takes.
arm(outcome, response) ==
    CASE outcome.kind = "Ok" /\ outcome.v = len(response) -> "full"
      [] outcome.kind = "Ok" /\ outcome.v # len(response) -> "short"
      [] outcome.kind = "Err" /\ outcome.err = "WouldBlock" -> "would block"
      [] outcome.kind = "Err" /\ outcome.err # "WouldBlock" -> "error"
      [] outcome.kind = "Pending" -> "pending"

\* ------------------------------------------------------------------ state
VARIABLES
    state,          \* "Running" until poll returns Ready, then "Terminated"
    pc,             \* "idle" between polls; "cmds", "recv", "send" inside one
    commands,       \* the commands buffered in the channel
    sendersAlive,   \* whether a sender of the channel still exists
    waiting,        \* the number of datagrams buffered in the socket
    outgoing,       \* FSM.outgoing
    services,       \* FSM.services
    af6,            \* AF::v6()
    ifaces,         \* what get_if_addrs returns
    interest,       \* the wake-ups the task is registered for
    lastCmd,        \* what the last poll_next of this poll returned
    announced,      \* whether this poll has run send_unsolicited
    handled,        \* the datagram the last step of the receive loop reported
    recvResult,     \* what recv_packets returned to this poll
    sendArm,        \* the arm the last poll_send_to of this poll took
    sent,           \* the entry the last poll_send_to of this poll was given
    question,       \* the question handed to handle_question
    builder,        \* the response-in-progress handed to handle_question
    appended        \* the records each call of handle_question appended

vars == <<state, pc, commands, sendersAlive, waiting, outgoing, services, af6,
          ifaces, interest, lastCmd, announced, handled, recvResult, sendArm,
          sent, question, builder, appended>>

\* The variables of the dispatcher on its own.
dispatching == <<question, builder, appended>>

NoDatagram == Datagram(0, FALSE, FALSE, FALSE, <<>>)
NotHandled == [seen |-> FALSE, buffer |-> NoDatagram, addr |-> SocketAddr("", 0),
               pushed |-> <<>>, log |-> {}]
NoEntry == [bytes |-> build(new_response(0, FALSE, TRUE)), addr |-> SocketAddr("", 0)]
NoQuestion == Question("", "IN", "none", FALSE)

\* FSM::new, and the command channel and socket it creates.
FSM_new ==
    /\ state = "Running"
    /\ pc = "idle"
    /\ commands = <<>>
    /\ sendersAlive = TRUE
    /\ waiting = 0
    /\ outgoing = <<>>
    /\ services = Registry
    /\ af6 \in BOOLEAN
    /\ ifaces \in IfChoices
    /\ interest = {"spawn"}
    /\ lastCmd = "none"
    /\ announced = FALSE
    /\ handled = NotHandled
    /\ recvResult = "none"
    /\ sendArm = "none"
    /\ sent = NoEntry

Init ==
    /\ FSM_new
    /\ question = NoQuestion
    /\ builder = new_response(0, FALSE, TRUE)
    /\ appended = <<>>

\* ------------------------------------------------------ the environment
\* The producers and the network pause while the queue could pass MaxQueue.
Room(n) == Len(outgoing) + Len(commands) + 2 * waiting + n <= MaxQueue

\* UnboundedSender::send
Produce ==
    /\ state = "Running"
    /\ sendersAlive
    /\ Len(commands) < MaxCommands
    /\ Room(1)
    /\ \E cmd \in Commands : commands' = Append(commands, cmd)
    /\ UNCHANGED <<dispatching, sent, state, pc, sendersAlive, waiting, outgoing,
                   services, af6, ifaces, interest, lastCmd, announced, handled,
                   recvResult, sendArm>>

\* The last sender is dropped.
DropSenders ==
    /\ state = "Running"
    /\ sendersAlive
    /\ sendersAlive' = FALSE
    /\ UNCHANGED <<dispatching, sent, state, pc, commands, waiting, outgoing, services,
                   af6, ifaces, interest, lastCmd, announced, handled, recvResult,
                   sendArm>>

\* A datagram reaches the socket.
Arrive ==
    /\ state = "Running"
    /\ waiting < MaxWaiting
    /\ Room(2)
    /\ waiting' = waiting + 1
    /\ UNCHANGED <<dispatching, sent, state, pc, commands, sendersAlive, outgoing,
                   services, af6, ifaces, interest, lastCmd, announced, handled,
                   recvResult, sendArm>>

\* ------------------------------------------------------------------ poll
\* Whether the event a registration waits for has happened.
Ready(src) ==
    CASE src = "spawn" -> TRUE
      [] src = "chan" -> commands # <<>> \/ ~sendersAlive
      [] src = "read" -> waiting > 0
      [] src = "write" -> TRUE

\* The executor polls the task: once when it is spawned, and then when an
\* event the task is registered for has happened.
Wake ==
    /\ state = "Running"
    /\ pc = "idle"
    /\ \E src \in interest : Ready(src) /\ interest' = interest \ {src}
    /\ pc' = "cmds"
    /\ lastCmd' = "none"
    /\ sendArm' = "none"
    /\ sent' = NoEntry
    /\ UNCHANGED <<dispatching, state, commands, sendersAlive, waiting, outgoing,
                   services, af6, ifaces, announced, handled, recvResult>>

\* poll_next is Ready(Some(Command::Shutdown)): return Poll::Ready(()).
CmdShutdown_flushes ==
    /\ pc = "cmds"
    /\ commands # <<>>
    /\ Head(commands).kind = "Shutdown"
    /\ commands' = Tail(commands)
    /\ lastCmd' = "Some(Shutdown)"
    /\ outgoing' = <<>>
    /\ state' = "Terminated"
    /\ pc' = "idle"
    /\ UNCHANGED <<dispatching, sent, sendersAlive, waiting, services, af6, ifaces,
                   interest, announced, handled, recvResult, sendArm>>

CmdShutdown ==
    /\ pc = "cmds"
    /\ commands # <<>>
    /\ Head(commands).kind = "Shutdown"
    /\ commands' = Tail(commands)
    /\ lastCmd' = "Some(Shutdown)"
    /\ state' = "Terminated"
    /\ pc' = "idle"
    /\ UNCHANGED <<dispatching, sent, sendersAlive, waiting, outgoing, services, af6,
                   ifaces, interest, announced, handled, recvResult, sendArm>>

\* poll_next is Ready(Some(Command::SendUnsolicited {..})).
CmdSendUnsolicited_once ==
    /\ pc = "cmds"
    /\ commands # <<>>
    /\ Head(commands).kind = "SendUnsolicited"
    /\ commands' = Tail(commands)
    /\ lastCmd' = "Some(SendUnsolicited)"
    /\ outgoing' = outgoing \o send_unsolicited(services, ifaces, af6, Head(commands).svc,
                                                Head(commands).ttl, Head(commands).include_ip)
    /\ announced' = TRUE
    /\ pc' = "recv"
    /\ UNCHANGED <<dispatching, sent, state, sendersAlive, waiting, services, af6,
                   ifaces, interest, handled, recvResult, sendArm>>

CmdSendUnsolicited ==
    /\ pc = "cmds"
    /\ commands # <<>>
    /\ Head(commands).kind = "SendUnsolicited"
    /\ commands' = Tail(commands)
    /\ lastCmd' = "Some(SendUnsolicited)"
    /\ outgoing' = outgoing \o send_unsolicited(services, ifaces, af6, Head(commands).svc,
                                                Head(commands).ttl, Head(commands).include_ip)
    /\ announced' = TRUE
    /\ UNCHANGED <<dispatching, sent, state, pc, sendersAlive, waiting, services, af6,
                   ifaces, interest, handled, recvResult, sendArm>>

\* poll_next is Ready(None): every sender is gone and nothing is buffered.
CmdNone_keepsRunning ==
    /\ pc = "cmds"
    /\ commands = <<>>
    /\ ~sendersAlive
    /\ lastCmd' = "None"
    /\ pc' = "recv"
    /\ UNCHANGED <<dispatching, sent, state, commands, sendersAlive, waiting, outgoing,
                   services, af6, ifaces, interest, announced, handled, recvResult,
                   sendArm>>

CmdNone ==
    /\ pc = "cmds"
    /\ commands = <<>>
    /\ ~sendersAlive
    /\ lastCmd' = "None"
    /\ state' = "Terminated"
    /\ pc' = "idle"
    /\ UNCHANGED <<dispatching, sent, commands, sendersAlive, waiting, outgoing,
                   services, af6, ifaces, interest, announced, handled, recvResult,
                   sendArm>>

\* poll_next is Pending: the command loop ends, the task waits for the channel.
CmdPending ==
    /\ pc = "cmds"
    /\ commands = <<>>
    /\ sendersAlive
    /\ lastCmd' = "Pending"
    /\ interest' = interest \cup {"chan"}
    /\ pc' = "recv"
    /\ UNCHANGED <<dispatching, sent, state, commands, sendersAlive, waiting, outgoing,
                   services, af6, ifaces, announced, handled, recvResult, sendArm>>

\* poll_recv_from is Ready(Ok((bytes, addr))) with bytes < buf.len().
RecvPacket ==
    /\ pc = "recv"
    /\ waiting > 0
    /\ \E buffer \in Datagrams, addr \in Peers :
          /\ ~too_big(buffer.bytes)
          /\ LET r == handle_packet(services, ifaces, af6, buffer, addr)
             IN /\ outgoing' = outgoing \o Packets(r.pushed)
                /\ handled' = [seen |-> TRUE, buffer |-> buffer, addr |-> addr,
                               pushed |-> r.pushed, log |-> r.log]
    /\ waiting' = waiting - 1
    /\ UNCHANGED <<dispatching, sent, state, pc, commands, sendersAlive, services, af6,
                   ifaces, interest, lastCmd, announced, recvResult, sendArm>>

\* poll_recv_from is Ready(Ok((bytes, addr))) with bytes >= buf.len():
\* recv_packets returns Err(BufferTooSmall), which poll logs.
RecvTooBig ==
    /\ pc = "recv"
    /\ waiting > 0
    /\ \E buffer \in Datagrams, addr \in Peers :
          /\ too_big(buffer.bytes)
          /\ handled' = [seen |-> TRUE, buffer |-> buffer, addr |-> addr,
                         pushed |-> <<>>, log |-> {"buffer too small for packet"}]
    /\ waiting' = waiting - 1
    /\ recvResult' = "Err(BufferTooSmall)"
    /\ pc' = "send"
    /\ UNCHANGED <<dispatching, sent, state, commands, sendersAlive, outgoing, services,
                   af6, ifaces, interest, lastCmd, announced, sendArm>>

\* poll_recv_from is Ready(Err(err)): recv_packets returns it, poll logs it.
RecvErr_isFatal ==
    /\ pc = "recv"
    /\ recvResult' = "Err(io)"
    /\ handled' = NotHandled
    /\ state' = "Terminated"
    /\ pc' = "idle"
    /\ UNCHANGED <<dispatching, sent, commands, sendersAlive, waiting, outgoing,
                   services, af6, ifaces, interest, lastCmd, announced, sendArm>>

RecvErr ==
    /\ pc = "recv"
    /\ recvResult' = "Err(io)"
    /\ handled' = NotHandled
    /\ pc' = "send"
    /\ UNCHANGED <<dispatching, sent, state, commands, sendersAlive, waiting, outgoing,
                   services, af6, ifaces, interest, lastCmd, announced, sendArm>>

\* poll_recv_from is Pending: the receive loop ends with Ok(()), the task
\* waits for the socket.
RecvPending ==
    /\ pc = "recv"
    /\ waiting = 0
    /\ recvResult' = "Ok"
    /\ handled' = NotHandled
    /\ interest' = interest \cup {"read"}
    /\ pc' = "send"
    /\ UNCHANGED <<dispatching, sent, state, commands, sendersAlive, waiting, outgoing,
                   services, af6, ifaces, lastCmd, announced, sendArm>>

\* VecDeque::front, on a queue that is not empty
front_takesBack(queue) == queue[Len(queue)]

front(queue) == Head(queue)

\* VecDeque::pop_front
pop_front(queue) == IF queue = <<>> THEN queue ELSE Tail(queue)

\* The send loop finds the queue empty; pop_front; return Poll::Pending.
SendNothing ==
    /\ pc = "send"
    /\ outgoing = <<>>
    /\ outgoing' = pop_front(outgoing)
    /\ pc' = "idle"
    /\ announced' = FALSE
    /\ handled' = NotHandled
    /\ recvResult' = "none"
    /\ UNCHANGED <<dispatching, sent, state, commands, sendersAlive, waiting, services,
                   af6, ifaces, interest, lastCmd, sendArm>>

\* poll_send_to on the front entry returns a result that breaks out of the
\* loop; pop_front; return Poll::Pending.
SendBreak_keepsUnsent ==
    /\ pc = "send"
    /\ outgoing # <<>>
    /\ \E outcome \in SendOutcomes(front(outgoing).bytes) :
          /\ breaks(outcome, front(outgoing).bytes)
          /\ sendArm' = arm(outcome, front(outgoing).bytes)
          /\ interest' = IF outcome.kind = "Pending" THEN interest \cup {"write"}
                         ELSE interest
          /\ outgoing' = IF arm(outcome, front(outgoing).bytes) = "full"
                         THEN pop_front(outgoing) ELSE outgoing
    /\ pc' = "idle"
    /\ announced' = FALSE
    /\ handled' = NotHandled
    /\ recvResult' = "none"
    /\ sent' = front(outgoing)
    /\ UNCHANGED <<dispatching, state, commands, sendersAlive, waiting, services, af6,
                   ifaces, lastCmd>>

SendBreak ==
    /\ pc = "send"
    /\ outgoing # <<>>
    /\ \E outcome \in SendOutcomes(front(outgoing).bytes) :
          /\ breaks(outcome, front(outgoing).bytes)
          /\ sendArm' = arm(outcome, front(outgoing).bytes)
          /\ interest' = IF outcome.kind = "Pending" THEN interest \cup {"write"}
                         ELSE interest
    /\ outgoing' = pop_front(outgoing)
    /\ pc' = "idle"
    /\ announced' = FALSE
    /\ handled' = NotHandled
    /\ recvResult' = "none"
    /\ sent' = front(outgoing)
    /\ UNCHANGED <<dispatching, state, commands, sendersAlive, waiting, services, af6,
                   ifaces, lastCmd>>

\* poll_send_to on the front entry returns a short write or an error other
\* than WouldBlock: a warning, and the loop tries the front entry again.
SendRetry_givesUp ==
    /\ pc = "send"
    /\ outgoing # <<>>
    /\ \E outcome \in SendOutcomes(front(outgoing).bytes) :
          /\ ~breaks(outcome, front(outgoing).bytes)
          /\ sendArm' = arm(outcome, front(outgoing).bytes)
    /\ handled' = NotHandled
    /\ sent' = front(outgoing)
    /\ state' = "Terminated"
    /\ pc' = "idle"
    /\ UNCHANGED <<dispatching, commands, sendersAlive, waiting, outgoing, services,
                   af6, ifaces, interest, lastCmd, announced, recvResult>>

SendRetry ==
    /\ pc = "send"
    /\ outgoing # <<>>
    /\ \E outcome \in SendOutcomes(front(outgoing).bytes) :
          /\ ~breaks(outcome, front(outgoing).bytes)
          /\ sendArm' = arm(outcome, front(outgoing).bytes)
    /\ handled' = NotHandled
    /\ sent' = front(outgoing)
    /\ UNCHANGED <<dispatching, state, pc, commands, sendersAlive, waiting, outgoing,
                   services, af6, ifaces, interest, lastCmd, announced, recvResult>>

Poll ==
    \/ CmdShutdown
    \/ CmdSendUnsolicited
    \/ CmdNone
    \/ CmdPending
    \/ RecvPacket
    \/ RecvTooBig
    \/ RecvErr
    \/ RecvPending
    \/ SendNothing
    \/ SendBreak
    \/ SendRetry

Next ==
    \/ Produce
    \/ DropSenders
    \/ Arrive
    \/ Wake
    \/ Poll

Spec == Init /\ [][Next]_vars

\* The thread that runs poll does not stop inside it: a poll that can take
\* a step takes one.  Nothing is assumed of the channel, the network or
\* the executor.
FairSpec == Init /\ [][Next]_vars /\ WF_vars(Poll)

\* ------------------------------------------------- the dispatcher alone
\* handle_question called on its own: one question, dispatched up to
\* MaxDispatches times against one response-in-progress.
DispatchTypes == {"A", "AAAA", "All", "PTR", "SRV", "TXT", "NS"}

DispatchNames == {Hostname, HttpType, IppType, svcA.name, svcC.name}

DispatchQuestions ==
    { Question(qname, qclass, qtype, qu) :
         qname \in DispatchNames, qclass \in {"IN", "Any"},
         qtype \in DispatchTypes, qu \in BOOLEAN }

\* A response-in-progress: fresh, or holding the record of an earlier question.
Builders ==
    LET fresh == new_response(CHOOSE id \in QueryIds : TRUE, FALSE, TRUE)
    IN {fresh, add_answer(fresh, RR("other.local", "TXT", DEFAULT_TTL, "", 0, "x=1"))}

DispatchInit ==
    /\ FSM_new
    /\ question \in DispatchQuestions
    /\ builder \in Builders
    /\ appended = <<>>

\* builder = self.handle_question(&question, builder)
Dispatch ==
    /\ Len(appended) < MaxDispatches
    /\ LET b == handle_question(services, ifaces, af6, question, builder)
       IN /\ builder' = b
          /\ appended' = Append(appended, SubSeq(b.recs, Len(builder.recs) + 1, Len(b.recs)))
    /\ UNCHANGED <<question, state, pc, commands, sendersAlive, waiting, outgoing,
                   services, af6, ifaces, interest, lastCmd, announced, handled,
                   recvResult, sendArm, sent>>

DispatchNext == Dispatch

DispatchSpec == DispatchInit /\ [][DispatchNext]_vars

\* ------------------------------------------------------------- properties
Group == SocketAddr(mdns_group(af6), MDNS_PORT)

\* The datagram the receive loop has just reported was handed to
\* handle_packet and passed its three checks.
Accepted(h) ==
    /\ h.seen
    /\ ~too_big(h.buffer.bytes)
    /\ h.buffer.wellformed
    /\ h.buffer.header.query
    /\ ~h.buffer.header.truncated

\* It was handed to handle_packet and failed one of the three checks.
Rejected(h) ==
    /\ h.seen
    /\ ~too_big(h.buffer.bytes)
    /\ \/ ~h.buffer.wellformed
       \/ ~h.buffer.header.query
       \/ h.buffer.header.truncated

\* A step of the receive loop that took a datagram from the socket.
Received == pc = "recv" /\ waiting' = waiting - 1

\* The entries at the back of the queue are the ones the last datagram pushed.
PushedAtBack ==
    /\ Len(outgoing) >= Len(handled.pushed)
    /\ \A k \in 1..Len(handled.pushed) :
          outgoing[Len(outgoing) - Len(handled.pushed) + k] = handled.pushed[k].pkt

\* The records question i of the last datagram appended to pushed entry k.
RecordsOf(k, i) ==
    LET e == handled.pushed[k]
        at == SelectSeq([j \in 1..Len(e.from) |-> j], LAMBDA j : e.from[j] = i)
    IN [n \in 1..Len(at) |-> e.pkt.bytes.answers[at[n]]]

\* C1: a poll step that dequeues Shutdown, or finds the channel closed and
\* empty, returns Ready in that step (the driver is Terminated), whatever
\* is queued and whatever waits on the socket.
C1_ShutdownOrClosedTerminates ==
    [][ ( /\ pc = "cmds"
          /\ \/ /\ commands # <<>>
                /\ Head(commands).kind = "Shutdown"
                /\ commands' = Tail(commands)
             \/ /\ commands = <<>>
                /\ ~sendersAlive
                /\ lastCmd' # lastCmd )
        => (state' = "Terminated" /\ pc' = "idle") ]_vars

C1_Witness ==
    /\ state = "Terminated"
    /\ lastCmd = "None"
    /\ outgoing # <<>>
    /\ waiting > 0

\* C2: of an accepted query from S, the records of a question with qu set
\* are in the pushed packet addressed to S and in no packet addressed to
\* the multicast group.
C2_QuRepliesGoToSender ==
    Accepted(handled) =>
        /\ PushedAtBack
        /\ \A k \in 1..Len(handled.pushed) :
              \A j \in 1..Len(handled.pushed[k].from) :
                 handled.buffer.questions[handled.pushed[k].from[j]].qu =>
                    /\ handled.pushed[k].pkt.addr = handled.addr
                    /\ handled.pushed[k].pkt.addr # Group
        /\ \A i \in 1..Len(handled.buffer.questions) :
              LET q == handled.buffer.questions[i]
                  recs == handle_question(services, ifaces, af6, q,
                                          new_response(0, FALSE, TRUE)).recs
              IN (q.qu /\ q.qclass \in {"IN", "Any"} /\ recs # <<>>) =>
                    \E k \in 1..Len(handled.pushed) :
                       /\ handled.pushed[k].pkt.addr = handled.addr
                       /\ RecordsOf(k, i) = recs

C2_Witness ==
    /\ Accepted(handled)
    /\ Len(handled.pushed) = 2
    /\ \E j \in 1..Len(handled.pushed[2].from) :
          handled.buffer.questions[handled.pushed[2].from[j]].qu
    /\ handled.pushed[2].pkt.addr = handled.addr

\* C3: of an accepted query from S, the records of a question with qu unset
\* are in the pushed packet addressed to the multicast group on port 5353
\* and in no packet addressed to S.
C3_NonQuRepliesGoToGroup ==
    Accepted(handled) =>
        /\ PushedAtBack
        /\ \A k \in 1..Len(handled.pushed) :
              \A j \in 1..Len(handled.pushed[k].from) :
                 ~handled.buffer.questions[handled.pushed[k].from[j]].qu =>
                    /\ handled.pushed[k].pkt.addr.ip = mdns_group(af6)
                    /\ handled.pushed[k].pkt.addr.port = 5353
                    /\ handled.pushed[k].pkt.addr # handled.addr
        /\ \A i \in 1..Len(handled.buffer.questions) :
              LET q == handled.buffer.questions[i]
                  recs == handle_question(services, ifaces, af6, q,
                                          new_response(0, FALSE, TRUE)).recs
              IN (~q.qu /\ q.qclass \in {"IN", "Any"} /\ recs # <<>>) =>
                    \E k \in 1..Len(handled.pushed) :
                       /\ handled.pushed[k].pkt.addr = Group
                       /\ RecordsOf(k, i) = recs

C3_Witness ==
    /\ Accepted(handled)
    /\ Len(handled.pushed) = 2
    /\ \E j \in 1..Len(handled.pushed[1].from) :
          ~handled.buffer.questions[handled.pushed[1].from[j]].qu
    /\ handled.pushed[1].pkt.addr = Group

\* Question q makes the dispatcher append at least one record.
Answerable(q) ==
    /\ q.qclass \in {"IN", "Any"}
    /\ handle_question(services, ifaces, af6, q, new_response(0, FALSE, TRUE)).recs # <<>>

\* C4: handling one accepted query appends at most one packet addressed to
\* the multicast group and at most one addressed to the sender, and nothing
\* when no question of it makes the dispatcher append a record.
C4_AtMostOneReplyPerPath ==
    [][ (Received /\ Accepted(handled')) =>
          /\ Len(outgoing') - Len(outgoing) \in {0, 1, 2}
          /\ SubSeq(outgoing', 1, Len(outgoing)) = outgoing
          /\ LET new == SubSeq(outgoing', Len(outgoing) + 1, Len(outgoing'))
             IN /\ Cardinality({k \in 1..Len(new) : new[k].addr = Group'}) <= 1
                /\ Cardinality({k \in 1..Len(new) : new[k].addr = handled'.addr}) <= 1
                /\ \A k \in 1..Len(new) : new[k].addr \in {Group', handled'.addr}
                /\ (\A i \in 1..Len(handled'.buffer.questions) :
                       ~Answerable(handled'.buffer.questions[i])) => new = <<>> ]_vars

C4_Witness ==
    /\ Accepted(handled)
    /\ Len(handled.buffer.questions) = 2
    /\ Len(handled.pushed) = 2
    /\ PushedAtBack
    /\ Len(outgoing) = 3

\* C5: a datagram that does not parse, is not a query or is truncated
\* leaves the queue as it was, surfaces no error, and the receive loop goes
\* on to the next receive of the same poll.
C5_RejectedDatagramIsDropped ==
    [][ (Received /\ Rejected(handled')) =>
          /\ outgoing' = outgoing
          /\ handled'.pushed = <<>>
          /\ recvResult' = "none"
          /\ state' = "Running"
          /\ pc' = "recv" ]_vars

C5_Witness ==
    /\ Rejected(handled)
    /\ handled.buffer.header.truncated
    /\ pc = "recv"
    /\ waiting > 0
    /\ outgoing # <<>>

IsAddress(rr) == rr.rtype \in {"A", "AAAA"}

\* C6: a consumed SendUnsolicited{svc, ttl, include_ip} appends exactly one
\* packet at the back of the queue, addressed to the multicast group on
\* port 5353, with id 0, holding PTR, SRV and TXT of svc in that order with
\* the command's ttl, then the address records (same ttl) if include_ip is
\* set and no address record otherwise.
C6_UnsolicitedAnnouncement ==
    [][ ( /\ pc = "cmds"
          /\ commands # <<>>
          /\ Head(commands).kind = "SendUnsolicited"
          /\ commands' = Tail(commands) )
        => LET cmd == Head(commands)
               svc == cmd.svc
           IN /\ Len(outgoing') = Len(outgoing) + 1
              /\ SubSeq(outgoing', 1, Len(outgoing)) = outgoing
              /\ LET p == outgoing'[Len(outgoing')]
                     a == p.bytes.answers
                 IN /\ p.addr.ip = mdns_group(af6)
                    /\ p.addr.port = 5353
                    /\ p.bytes.id = 0
                    /\ Len(a) >= 3
                    /\ a[1].rtype = "PTR" /\ a[1].name = svc.typ /\ a[1].target = svc.name
                    /\ a[2].rtype = "SRV" /\ a[2].name = svc.name /\ a[2].port = svc.port
                    /\ a[3].rtype = "TXT" /\ a[3].name = svc.name /\ a[3].text = svc.txt
                    /\ \A k \in 1..Len(a) : a[k].ttl = cmd.ttl
                    /\ \A k \in 4..Len(a) : IsAddress(a[k])
                    /\ cmd.include_ip =>
                          SubSeq(a, 4, Len(a)) =
                             add_ip_rr(ifaces, af6, get_hostname(services),
                                       new_response(0, FALSE, TRUE), cmd.ttl).recs
                    /\ ~cmd.include_ip => Len(a) = 3 ]_vars

C6_Witness ==
    /\ pc = "cmds"
    /\ lastCmd = "Some(SendUnsolicited)"
    /\ Len(outgoing) = 2
    /\ outgoing[2].bytes.id = 0
    /\ Len(outgoing[2].bytes.answers) = 4
    /\ outgoing[2].bytes.answers[4].ttl = 120

\* recs without the address records at its front.
RECURSIVE SkipAddresses(_)
SkipAddresses(recs) ==
    IF recs # <<>> /\ IsAddress(Head(recs)) THEN SkipAddresses(Tail(recs)) ELSE recs

\* recs is, for each service of svcs in turn, PTR, SRV naming the hostname,
\* TXT, then address records only.
RECURSIVE IsGroups(_, _)
IsGroups(recs, svcs) ==
    IF svcs = <<>> THEN recs = <<>>
    ELSE LET svc == Head(svcs)
         IN /\ Len(recs) >= 3
            /\ recs[1].rtype = "PTR" /\ recs[1].name = svc.typ /\ recs[1].target = svc.name
            /\ recs[2].rtype = "SRV" /\ recs[2].name = svc.name
            /\ recs[2].target = Hostname /\ recs[2].port = svc.port
            /\ recs[3].rtype = "TXT" /\ recs[3].name = svc.name /\ recs[3].text = svc.txt
            /\ IsGroups(SkipAddresses(SubSeq(recs, 4, Len(recs))), Tail(svcs))

\* C7: the records a PTR question appends are, for each service registered
\* under the queried type, PTR, SRV, TXT and then address records, one
\* service after the other.
C7_PtrGroupsInOrder ==
    Accepted(handled) =>
        \A i \in 1..Len(handled.buffer.questions) :
           LET q == handled.buffer.questions[i]
               svcs == SelectSeq(services.list, LAMBDA x : x.typ = q.qname)
           IN (q.qtype = "PTR" /\ q.qclass \in {"IN", "Any"}) =>
                 /\ \A k \in 1..Len(handled.pushed) :
                       RecordsOf(k, i) = <<>> \/ IsGroups(RecordsOf(k, i), svcs)
                 /\ svcs # <<>> => \E k \in 1..Len(handled.pushed) : RecordsOf(k, i) # <<>>

C7_Witness ==
    /\ Accepted(handled)
    /\ \E i \in 1..Len(handled.buffer.questions) :
          /\ handled.buffer.questions[i].qtype = "PTR"
          /\ \E k \in 1..Len(handled.pushed) : Len(RecordsOf(k, i)) = 8

\* C8: a receive that reports 4096 bytes or more ends the receive loop of
\* this poll with an error: nothing is pushed, no other datagram is taken
\* in this poll, the poll returns Pending with the driver Running, and a
\* poll whose command loop ends without a terminating command goes on to
\* the receive loop.
C8_OversizedDatagramEndsIngestion ==
    [][ /\ (Received /\ handled'.seen /\ handled'.buffer.bytes >= 4096) =>
              /\ outgoing' = outgoing
              /\ handled'.pushed = <<>>
              /\ recvResult' = "Err(BufferTooSmall)"
              /\ pc' = "send"
              /\ state' = "Running"
        /\ recvResult = "Err(BufferTooSmall)" =>
              /\ waiting' >= waiting
              /\ state' = "Running"
              /\ pc' \in {"send", "idle"}
        /\ (pc = "cmds" /\ pc' # "cmds" /\ state' = "Running") => pc' = "recv" ]_vars

C8_Witness ==
    /\ recvResult = "Err(BufferTooSmall)"
    /\ handled.buffer.bytes >= 4096
    /\ pc = "send"
    /\ state = "Running"
    /\ waiting > 0
    /\ outgoing # <<>>

\* C9: an entry leaves the queue only after a send of it wrote its full
\* length; an entry whose send would block or is pending stays at the front.
C9_RemovedOnlyAfterFullSend ==
    [][ Len(outgoing') < Len(outgoing) => sendArm' = "full" ]_vars

\* C10: the poll that consumes Shutdown or finds the channel closed returns
\* at once: it receives nothing, attempts no send and removes nothing, so
\* everything queued, announcements of this poll included, stays queued.
C10_TerminationLeavesQueue ==
    [][ state' = "Terminated" =>
          /\ outgoing' = outgoing
          /\ waiting' = waiting
          /\ ~handled'.seen
          /\ recvResult' = "none"
          /\ sendArm' = "none" ]_vars

C10_Witness ==
    /\ state = "Terminated"
    /\ lastCmd = "Some(Shutdown)"
    /\ announced
    /\ Len(outgoing) = 2
    /\ outgoing[2].bytes.id = 0

\* A step of the send loop that hands an entry to poll_send_to.
SendAttempt ==
    /\ pc = "send"
    /\ outgoing # <<>>
    /\ commands' = commands
    /\ waiting' = waiting
    /\ sendersAlive' = sendersAlive

\* C11: the queue is FIFO.  Every step leaves it alone, appends at its back
\* (command and receive phases only) or removes its front (send phase
\* only); every send attempt is made on the front entry, and an entry that
\* is transmitted in full is the oldest one and leaves alone, so entries
\* are transmitted in the order they were enqueued.  Of the two replies to
\* one datagram the multicast one is enqueued first, and an announcement
\* of the step is ahead of the replies to the datagrams of the step.
C11_OutboundQueueIsFifo ==
    [][ /\ \/ outgoing' = outgoing
           \/ /\ pc \in {"cmds", "recv"}
              /\ Len(outgoing') > Len(outgoing)
              /\ SubSeq(outgoing', 1, Len(outgoing)) = outgoing
           \/ /\ pc = "send"
              /\ outgoing # <<>>
              /\ outgoing' = Tail(outgoing)
        /\ SendAttempt => sent' = outgoing[1]
        /\ (SendAttempt /\ sendArm' = "full") =>
              /\ outgoing' = SubSeq(outgoing, 2, Len(outgoing))
              /\ \A k \in 1..Len(outgoing') : outgoing'[k] = outgoing[k + 1]
        /\ (Received /\ Len(handled'.pushed) = 2) =>
              /\ outgoing'[Len(outgoing) + 1].addr = Group
              /\ outgoing'[Len(outgoing) + 2].addr = handled'.addr
        /\ (Received /\ announced /\ handled'.pushed # <<>>) =>
              \E k \in 1..Len(outgoing) :
                 /\ outgoing[k].bytes.id = 0
                 /\ \A n \in (Len(outgoing) + 1)..Len(outgoing') : k < n ]_vars

C11_Witness ==
    /\ pc = "idle"
    /\ sendArm = "full"
    /\ sent.bytes.id = 0
    /\ sent.addr = Group
    /\ Len(outgoing) = 2
    /\ outgoing[1].addr = Group
    /\ outgoing[1].bytes.id # 0
    /\ outgoing[2].addr # Group

\* C12: the driver becomes Terminated only in a step of the command loop
\* that dequeues Shutdown or finds the channel closed and empty; every
\* other poll step, receive errors and send errors included, leaves it
\* Running, and a poll that gets past the command loop returns Pending.
C12_CompletionOnlyByCommand ==
    [][ /\ (state = "Running" /\ state' = "Terminated") =>
              /\ pc = "cmds"
              /\ \/ /\ commands # <<>>
                    /\ Head(commands).kind = "Shutdown"
                    /\ commands' = Tail(commands)
                 \/ /\ commands = <<>>
                    /\ ~sendersAlive
        /\ pc \in {"recv", "send"} => state' = "Running"
        /\ ( \/ recvResult' \in {"Err(io)", "Err(BufferTooSmall)"}
             \/ sendArm' \in {"short", "error", "would block", "pending"} ) =>
              state' = "Running"
        /\ state = "Terminated" => state' = "Terminated" ]_vars

C12_Witness ==
    /\ state = "Running"
    /\ pc = "send"
    /\ lastCmd = "Pending"
    /\ recvResult = "Err(io)"
    /\ sendArm = "error"

\* C13 as claimed: a poll whose receive failed with an error other than
\* would-block ends with the driver Terminated.
C13_ReceiveErrorIsFatal ==
    [][ (recvResult = "Err(io)" /\ pc = "send" /\ pc' = "idle") =>
           state' = "Terminated" ]_vars

\* C13: a receive error other than would-block is contained in its poll
\* step like every other error: it ends the receive loop of the step,
\* touches neither the queue nor the socket's buffer, the step goes on to
\* the send loop and returns Pending with the driver Running, and the next
\* step receives again.
C13_ReceiveErrorIsContained ==
    [][ /\ (pc = "recv" /\ recvResult' = "Err(io)") =>
              /\ state' = "Running"
              /\ pc' = "send"
              /\ outgoing' = outgoing
              /\ waiting' = waiting
              /\ commands' = commands
        /\ recvResult = "Err(io)" =>
              /\ state' = "Running"
              /\ pc' \in {"send", "idle"}
              /\ waiting' >= waiting
        /\ (recvResult = "Err(io)" /\ pc' = "idle") =>
              /\ recvResult' = "none"
              /\ outgoing' = pop_front(outgoing) ]_vars

C13_Witness ==
    /\ recvResult = "Err(io)"
    /\ state = "Running"
    /\ pc = "send"
    /\ waiting > 0
    /\ outgoing # <<>>
    /\ sendArm = "short"

\* C14: a poll runs its phases in the order commands, receives, sends.  The
\* command loop is left for the receive loop only when the channel is
\* empty and has reported Pending; the receive loop is left for the send
\* loop only when the socket has nothing more or has reported an error;
\* no datagram is taken and no send is attempted before that, and no
\* command is taken after the command loop.
C14_PhasesInOrder ==
    [][ /\ pc' # pc =>
              \/ pc = "idle" /\ pc' = "cmds"
              \/ pc = "cmds" /\ pc' = "recv"
              \/ pc = "cmds" /\ pc' = "idle" /\ state' = "Terminated"
              \/ pc = "recv" /\ pc' = "send"
              \/ pc = "send" /\ pc' = "idle"
        /\ (pc = "cmds" /\ pc' = "recv") =>
              /\ commands = <<>>
              /\ lastCmd' = "Pending"
        /\ (pc = "recv" /\ pc' = "send") =>
              \/ waiting = 0 /\ recvResult' = "Ok"
              \/ recvResult' \in {"Err(io)", "Err(BufferTooSmall)"}
        /\ pc = "cmds" =>
              /\ waiting' >= waiting
              /\ ~handled'.seen
              /\ recvResult' = "none"
              /\ sendArm' = "none"
              /\ sent' = NoEntry
        /\ pc = "recv" =>
              /\ Len(commands') >= Len(commands)
              /\ sendArm' = "none"
              /\ sent' = NoEntry
              /\ Len(outgoing') >= Len(outgoing)
        /\ pc = "send" =>
              /\ Len(commands') >= Len(commands)
              /\ waiting' >= waiting
              /\ Len(outgoing') <= Len(outgoing) ]_vars

C14_Witness ==
    /\ pc = "send"
    /\ lastCmd = "Pending"
    /\ announced
    /\ recvResult = "Ok"
    /\ sendArm = "short"
    /\ Len(outgoing) = 3
    /\ outgoing[1].bytes.id = 0
    /\ outgoing[3].bytes.id # 0
    /\ sent = outgoing[1]

\* C15: the poll that reaches the end of its send loop removes exactly the
\* front entry of a queue that is not empty, whether the last send wrote
\* the whole entry, would block or is pending, and leaves an empty queue
\* empty; the attempts before the last one remove nothing.
C15_OneEntryRemovedPerStep ==
    [][ /\ (pc = "send" /\ pc' = "idle") =>
              /\ state' = "Running"
              /\ outgoing = <<>> => outgoing' = <<>> /\ sendArm' = "none"
              /\ outgoing # <<>> =>
                    /\ sendArm' \in {"full", "would block", "pending"}
                    /\ Len(outgoing') = Len(outgoing) - 1
                    /\ \A k \in 1..Len(outgoing') : outgoing'[k] = outgoing[k + 1]
        /\ (pc = "send" /\ pc' = "send") => outgoing' = outgoing ]_vars

C15_Witness ==
    /\ pc = "idle"
    /\ state = "Running"
    /\ sendArm = "pending"
    /\ "write" \in interest
    /\ sent.bytes.id = 0
    /\ Len(outgoing) = 2
    /\ outgoing[1].bytes.id # 0

\* The records in appended, one call after the other.
RECURSIVE Flatten(_)
Flatten(slices) ==
    IF slices = <<>> THEN <<>> ELSE Head(slices) \o Flatten(Tail(slices))

\* The address records of the responder: one per interface that is not
\* loopback and is of the socket's address family, none when the
\* interfaces cannot be listed.
AddressRecords ==
    IF ~ifaces.ok THEN <<>>
    ELSE LET own == SelectSeq(ifaces.list, LAMBDA i : ~i.loopback /\ (i.v6 <=> af6))
         IN [k \in 1..Len(own) |->
                [name |-> Hostname, rtype |-> IF af6 THEN "AAAA" ELSE "A",
                 ttl |-> DEFAULT_TTL, target |-> own[k].ip, port |-> 0, text |-> ""]]

\* The services registered under a name, and under a type.
Named(qname) == {k \in 1..Len(services.list) : services.list[k].name = qname}
Typed(qname) == SelectSeq(services.list, LAMBDA x : x.typ = qname)

\* C16: what one call of the dispatcher appends is decided by the first
\* rule its question matches.  A, AAAA, ANY: the address records when the
\* name is the hostname, nothing otherwise.  PTR: the record groups of the
\* services of the queried type.  SRV: SRV naming the hostname, then the
\* address records, when a service has the queried name, nothing
\* otherwise.  TXT: the TXT record when a service has the queried name,
\* nothing otherwise.  Any other type: nothing.  What the
\* response-in-progress held before stays in front, unchanged.
C16_FirstMatchingRule ==
    /\ \E b0 \in Builders :
          builder = [b0 EXCEPT !.recs = b0.recs \o Flatten(appended)]
    /\ \A k \in 1..Len(appended) :
          LET recs == appended[k]
              t == question.qtype
          IN /\ t \in {"A", "AAAA", "All"} =>
                   recs = IF question.qname = Hostname THEN AddressRecords ELSE <<>>
             /\ t = "PTR" =>
                   /\ IsGroups(recs, Typed(question.qname))
                   /\ Typed(question.qname) = <<>> => recs = <<>>
             /\ t = "SRV" =>
                   IF Named(question.qname) = {} THEN recs = <<>>
                   ELSE /\ recs # <<>>
                        /\ recs[1].rtype = "SRV"
                        /\ recs[1].name = question.qname
                        /\ recs[1].target = Hostname
                        /\ \E n \in Named(question.qname) :
                              recs[1].port = services.list[n].port
                        /\ Tail(recs) = AddressRecords
             /\ t = "TXT" =>
                   IF Named(question.qname) = {} THEN recs = <<>>
                   ELSE /\ Len(recs) = 1
                        /\ recs[1].rtype = "TXT"
                        /\ recs[1].name = question.qname
                        /\ \E n \in Named(question.qname) :
                              recs[1].text = services.list[n].txt
             /\ t \notin {"A", "AAAA", "All", "PTR", "SRV", "TXT"} => recs = <<>>

C16_Witness ==
    /\ Len(appended) = 1
    /\ question.qtype = "SRV"
    /\ question.qname = svcA.name
    /\ Len(builder.recs) = 3
    /\ builder.recs[1].name = "other.local"
    /\ builder.recs[2].rtype = "SRV"
    /\ builder.recs[3].rtype = "A"

\* The answers of the packets the last datagram pushed, one after the other.
RECURSIVE AnswersOf(_)
AnswersOf(pushed) ==
    IF pushed = <<>> THEN <<>>
    ELSE Head(pushed).pkt.bytes.answers \o AnswersOf(Tail(pushed))

\* Whether the dispatcher has a record for question q, whatever its class.
Matches(q) ==
    \/ q.qtype \in {"A", "AAAA", "All"} /\ q.qname = Hostname /\ AddressRecords # <<>>
    \/ q.qtype = "PTR" /\ Typed(q.qname) # <<>>
    \/ q.qtype \in {"SRV", "TXT"} /\ Named(q.qname) # {}

\* C17: of an accepted query, a question whose class is neither IN nor Any
\* appends no record to either reply, so that a datagram of such questions
\* only pushes nothing, while each question of class IN or Any that has an
\* answer still appends its records.
C17_OtherClassesAreSkipped ==
    Accepted(handled) =>
        /\ \A i \in 1..Len(handled.buffer.questions) :
              LET q == handled.buffer.questions[i]
              IN /\ q.qclass \notin {"IN", "Any"} =>
                       \A k \in 1..Len(handled.pushed) : RecordsOf(k, i) = <<>>
                 /\ (q.qclass \in {"IN", "Any"} /\ Matches(q)) =>
                       \E k \in 1..Len(handled.pushed) : RecordsOf(k, i) # <<>>
        /\ \A k \in 1..Len(handled.pushed) :
              \A j \in 1..Len(handled.pushed[k].from) :
                 handled.buffer.questions[handled.pushed[k].from[j]].qclass \in {"IN", "Any"}
        /\ (\A i \in 1..Len(handled.buffer.questions) :
               handled.buffer.questions[i].qclass \notin {"IN", "Any"}) =>
              handled.pushed = <<>>

C17_Witness ==
    /\ Accepted(handled)
    /\ Len(handled.buffer.questions) = 2
    /\ handled.buffer.questions[1].qclass = "CH"
    /\ Matches(handled.buffer.questions[1])
    /\ handled.buffer.questions[2].qclass = "IN"
    /\ Len(handled.pushed) = 1
    /\ Len(AnswersOf(handled.pushed)) = 8

\* recs, n times over.
RECURSIVE Times(_, _)
Times(recs, n) == IF n = 0 THEN <<>> ELSE recs \o Times(recs, n - 1)

\* C18: the dispatcher does not deduplicate.  Every further call with the
\* same question on the same response-in-progress appends the records the
\* first call appended, so after n calls the response holds what it held
\* before, followed by those records n times.
C18_NoDeduplication ==
    Len(appended) >= 2 =>
        /\ \A k \in 2..Len(appended) : appended[k] = appended[1]
        /\ \E b0 \in Builders :
              builder.recs = b0.recs \o Times(appended[1], Len(appended))
        /\ Len(builder.recs) >= Len(appended) * Len(appended[1])

C18_Witness ==
    /\ Len(appended) = 2
    /\ question.qtype = "PTR"
    /\ Len(appended[1]) = 8
    /\ Len(builder.recs) = 17
    /\ builder.recs[2] = builder.recs[10]

\* C19: a poll that has reached its send loop returns.
C19_SendLoopReturns == (pc = "send") ~> (pc = "idle")

\* C20: whenever the driver is Running between two polls with entries
\* queued, a wake-up it is registered for is due, so that the next poll
\* starts without a further command or datagram.
C20_NoStrandedPacket ==
    (state = "Running" /\ pc = "idle" /\ outgoing # <<>>) =>
        \E src \in interest : Ready(src)

====
